---- MODULE Spec2Model ----
(***************************************************************************)
(* Chromaflow (src/chromaflow.py): a colour picked from a wallpaper or a   *)
(* pywal palette is converted to HSL (hex_to_hsl), turned into the theme   *)
(* values {hue, saturation}, written to the Marble colors.json             *)
(* (ThemeManager.update_colors) and handed to install.py                   *)
(* (ThemeManager.install_theme).                                           *)
(*                                                                         *)
(* Strings are sequences of one-character strings.  Python's None is the   *)
(* empty sequence <<>> and a present value v is <<v>>.  A float is the     *)
(* exact fraction [n |-> numerator, d |-> denominator] it approximates.    *)
(***************************************************************************)
EXTENDS Integers, Sequences, FiniteSets, TLC

VARIABLES
    pc,              \* where main() is: "picker", "closed", "update", "install", "done"
                     \* ("idle" while only hex_to_hsl or the derivation is called)
    fp,              \* the side on which a float lands when the exact value is a tie
    args,            \* argparse's result: name, mode, filled
    pixmap,          \* ImageViewer holds a non-null pixmap
    palette,         \* the colours of the swatches load_content created
    selected_color,  \* ModernColorPicker.selected_color
    apply_enabled,   \* apply_button.isEnabled()
    color_preview,   \* what ColorPreviewCard shows: the hex and the HSL labels
    clicks,          \* colour-selection events so far
    last_click,      \* the colour of the most recent colour-selection event
    closed_by,       \* how the window was closed: "cancel" or "apply"
    theme_values,    \* main's theme_values
    colors_file,     \* the file at args.colors_path
    installs,        \* the command lines subprocess.run was given by install_theme
    stdout,          \* what main printed
    exit_status,     \* the process's exit status
    fn_call,         \* a direct call of hex_to_hsl or of the derivation of main
    hsl_ret,         \* what the direct call of hex_to_hsl returned
    theme_ret        \* what the direct derivation returned

vars == <<pc, fp, args, pixmap, palette, selected_color, apply_enabled,
          color_preview, clicks, last_click, closed_by, theme_values,
          colors_file, installs, stdout, exit_status, fn_call, hsl_ret,
          theme_ret>>

appVars == <<pc, args, pixmap, palette, selected_color, apply_enabled,
             color_preview, clicks, last_click, closed_by, theme_values,
             colors_file, installs, stdout, exit_status>>

fnVars == <<fn_call, hsl_ret, theme_ret>>

(***************************************************************************)
(* Bounds of the model.                                                    *)
(***************************************************************************)
\* how many of ChannelValues a channel of a pixel or of a swatch takes
NChan == 5
\* how many of ChannelValues a channel of a clicked pixel takes
NPixel == 3
\* colour-selection events in one run of the picker
MaxClicks == 2
\* the longest arbitrary string handed to hex_to_hsl directly
MaxLen == 6
\* how far outside 0..100 a saturation handed to the derivation directly lies
SatSlack == 3

Min(a, b) == IF a <= b THEN a ELSE b
Max(a, b) == IF a >= b THEN a ELSE b

None == <<>>
Some(v) == <<v>>

\* 0, 255 and 1 give the primaries, black, white and a hue that rounds to
\* 360; 79 and 120 give hues and saturations that are exact ties.
ChannelValues == <<0, 255, 1, 79, 120, 128, 127, 8>>
Channels == {ChannelValues[i] : i \in 1..Min(NChan, Len(ChannelValues))}
PixelChannels == {ChannelValues[i] : i \in 1..Min(NPixel, Len(ChannelValues))}

(***************************************************************************)
(* Characters and Python's str / int operations used by hex_to_hsl.        *)
(***************************************************************************)
HexLower == <<"0","1","2","3","4","5","6","7","8","9","a","b","c","d","e","f">>
HexUpper == <<"0","1","2","3","4","5","6","7","8","9","A","B","C","D","E","F">>

IsHexDigit(c) == \E i \in 1..16 : HexLower[i] = c \/ HexUpper[i] = c

HexVal(c) == (CHOOSE i \in 1..16 : HexLower[i] = c \/ HexUpper[i] = c) - 1

IsSpace(c) == c = " "

IsSign(c) == c = "+" \/ c = "-"

\* str.lstrip("#"): every leading "#" goes, not only the first
RECURSIVE lstrip(_)
lstrip(s) == IF s # <<>> /\ Head(s) = "#" THEN lstrip(Tail(s)) ELSE s

\* s[i : j] of Python, 0-based, clipped to the string
Slice(s, i, j) == SubSeq(s, i + 1, Min(j, Len(s)))

\* str.strip() of the whitespace int() ignores
RECURSIVE StripLeft(_)
StripLeft(s) == IF s # <<>> /\ IsSpace(Head(s)) THEN StripLeft(Tail(s)) ELSE s

RECURSIVE StripRight(_)
StripRight(s) ==
    IF s # <<>> /\ IsSpace(s[Len(s)]) THEN StripRight(SubSeq(s, 1, Len(s) - 1)) ELSE s

RECURSIVE HexDigitsValue(_)
HexDigitsValue(s) ==
    IF s = <<>> THEN 0
    ELSE 16 * HexDigitsValue(SubSeq(s, 1, Len(s) - 1)) + HexVal(s[Len(s)])

\* int(x, 16): surrounding whitespace and one sign are accepted, then at
\* least one hex digit must follow and nothing else.  (A "0x" prefix or an
\* underscore needs three characters to be valid; x has at most two.)
\* The result is <<value>>, or <<>> for ValueError.
int16(x) ==
    LET t == StripRight(StripLeft(x))
        signed == t # <<>> /\ IsSign(t[1])
        digits == IF signed THEN Tail(t) ELSE t
    IN  IF digits = <<>> \/ \E k \in 1..Len(digits) : ~IsHexDigit(digits[k])
        THEN None
        ELSE Some(IF signed /\ t[1] = "-" THEN 0 - HexDigitsValue(digits)
                  ELSE HexDigitsValue(digits))

(***************************************************************************)
(* Floats.  A float is modelled by the exact fraction it approximates.     *)
(* round() of a double gives the integer nearest to the exact value        *)
(* whenever that value is not a tie; when it is exactly k + 1/2 the        *)
(* double is k + 1/2 or a neighbour of it, and round() gives k or k + 1    *)
(* according to the accumulated rounding error, which the model does not   *)
(* compute: fp names the side, fixed for a run.                            *)
(***************************************************************************)
Frac(n, d) == [n |-> n, d |-> d]

FpChoices == [h : {0, 1}, s : {0, 1}]

\* a faulty round: int(), which truncates towards zero
round_trunc(x, tie) ==
    LET n == IF x.d < 0 THEN 0 - x.n ELSE x.n
        d == IF x.d < 0 THEN 0 - x.d ELSE x.d
    IN  IF n >= 0 THEN n \div d ELSE 0 - ((0 - n) \div d)

\* round(x) of a float x whose exact value is x.n / x.d (x.d # 0)
round(x, tie) ==
    LET n == IF x.d < 0 THEN 0 - x.n ELSE x.n
        d == IF x.d < 0 THEN 0 - x.d ELSE x.d
        q == n \div d
        r == n - q * d
    IN  IF 2 * r < d THEN q ELSE IF 2 * r > d THEN q + 1 ELSE q + tie

Max3(a, b, c) == Max(a, Max(b, c))
Min3(a, b, c) == Min(a, Min(b, c))

\* colorsys.rgb_to_hls(r/d, g/d, b/d): h, l and s as fractions, or the
\* exception it raises
rgb_to_hls(r, g, b, d) ==
    LET maxc == Max3(r, g, b)
        minc == Min3(r, g, b)
        sumc == maxc + minc
        rangec == maxc - minc
        l == Frac(sumc, 2 * d)
        \* l <= 0.5
        s == IF sumc <= d THEN Frac(rangec, sumc)
             ELSE Frac(rangec, 2 * d - maxc - minc)
        \* rangec times bc - gc, 2.0 + rc - bc, 4.0 + gc - rc
        h6 == IF r = maxc THEN g - b
              ELSE IF g = maxc THEN 2 * rangec + b - r
              ELSE 4 * rangec + r - g
        \* (h / 6.0) % 1.0
        h == Frac(h6 % (6 * rangec), 6 * rangec)
    IN  IF minc = maxc
        THEN [exc |-> "none", h |-> Frac(0, 1), l |-> l, s |-> Frac(0, 1)]
        ELSE IF s.d = 0
        THEN [exc |-> "ZeroDivisionError", h |-> Frac(0, 1), l |-> l, s |-> Frac(0, 1)]
        ELSE [exc |-> "none", h |-> h, l |-> l, s |-> s]

Raise(e) == [exc |-> e, h |-> 0, s |-> 0, l |-> 0]

\* the generator of line 404, before the division by 255.0
parse_rgb(hex_color) ==
    <<int16(Slice(hex_color, 0, 2)), int16(Slice(hex_color, 2, 4)),
      int16(Slice(hex_color, 4, 6))>>

\* a faulty dict: the scales 360 and 100 of h and s exchanged
hsl_dict_scales_swapped(h, l, s) ==
    [exc |-> "none",
     h |-> round(Frac(100 * h.n, h.d), fp.h),
     s |-> round(Frac(360 * s.n, s.d), fp.s),
     l |-> round(Frac(100 * l.n, l.d), fp.s)]

\* a faulty dict: int() in place of round()
hsl_dict_truncating(h, l, s) ==
    [exc |-> "none",
     h |-> round_trunc(Frac(360 * h.n, h.d), fp.h),
     s |-> round_trunc(Frac(100 * s.n, s.d), fp.s),
     l |-> round_trunc(Frac(100 * l.n, l.d), fp.s)]

\* a faulty dict: the h, l, s of rgb_to_hls read as h, s, l
hsl_dict_read_as_hsl(h, l, s) ==
    [exc |-> "none",
     h |-> round(Frac(360 * h.n, h.d), fp.h),
     s |-> round(Frac(100 * l.n, l.d), fp.s),
     l |-> round(Frac(100 * s.n, s.d), fp.s)]

\* the dict hex_to_hsl returns.  100 * l is never a tie for channels over
\* 255 (20 * sumc = 51 * (2k + 1) has no solution), so its tie side is moot.
hsl_dict(h, l, s) ==
    [exc |-> "none",
     h |-> round(Frac(360 * h.n, h.d), fp.h),
     s |-> round(Frac(100 * s.n, s.d), fp.s),
     l |-> round(Frac(100 * l.n, l.d), fp.s)]

hex_to_hsl(hex_color) ==
    LET stripped == lstrip(hex_color)
        rgb == parse_rgb(stripped)
    IN  IF \E i \in 1..3 : rgb[i] = None
        THEN Raise("ValueError")
        ELSE LET hls == rgb_to_hls(rgb[1][1], rgb[2][1], rgb[3][1], 255)
             IN  IF hls.exc # "none" THEN Raise(hls.exc)
                 ELSE hsl_dict(hls.h, hls.l, hls.s)

\* faulty theme values: no upper bound on the saturation
theme_values_unclamped_above(hsl) ==
    [hue |-> hsl.h, saturation |-> Max(hsl.s, 30)]

\* faulty theme values: the hue wrapped into 0..359
theme_values_hue_wrapped(hsl) ==
    [hue |-> hsl.h % 360, saturation |-> Min(Max(hsl.s, 30), 100)]

\* main's theme_values
theme_values_of(hsl) ==
    [hue |-> hsl.h, saturation |-> Min(Max(hsl.s, 30), 100)]

\* QColor.name(): "#rrggbb" in lower case; pywal writes the same shape
HexByte(v, digits) == <<digits[(v \div 16) + 1], digits[(v % 16) + 1]>>

HexName(r, g, b, digits) ==
    <<"#">> \o HexByte(r, digits) \o HexByte(g, digits) \o HexByte(b, digits)

(***************************************************************************)
(* Direct calls of the two computations, on inputs from bounded sets.      *)
(***************************************************************************)
Alphabet == {"#", "f", "0", "Z", "-"}

ArbitraryStrings == UNION {[1..n -> Alphabet] : n \in 0..MaxLen}

ExampleStrings ==
    {<<"1","2","3","4","5">>, <<"#","Z","Z","Z","Z","Z","Z">>, <<>>}

ColourStrings ==
    UNION {{HexName(r, g, b, HexLower), HexName(r, g, b, HexUpper),
            Tail(HexName(r, g, b, HexLower)), Tail(HexName(r, g, b, HexUpper))} :
           <<r, g, b>> \in Channels \X Channels \X Channels}

FnStrings == ArbitraryStrings \cup ExampleStrings \cup ColourStrings

HslInputs ==
    [h : {0 - SatSlack, 0, 120, 360, 360 + SatSlack},
     s : (0 - SatSlack)..(100 + SatSlack),
     l : {0, 50, 100}]

NoHsl == [h |-> 0, s |-> 0, l |-> 0]

FnCalls ==
    {[fn |-> "hex_to_hsl", hex_color |-> x, hsl |-> NoHsl] : x \in FnStrings}
    \cup {[fn |-> "theme_values", hex_color |-> <<>>, hsl |-> x] : x \in HslInputs}

NoCall == [fn |-> "none", hex_color |-> <<>>, hsl |-> NoHsl]

AppIdle ==
    /\ pc = "idle"
    /\ args = [name |-> None, mode |-> "dark", filled |-> FALSE]
    /\ pixmap = FALSE
    /\ palette = <<>>
    /\ selected_color = None
    /\ apply_enabled = FALSE
    /\ color_preview = None
    /\ clicks = 0
    /\ last_click = None
    /\ closed_by = "open"
    /\ theme_values = None
    /\ colors_file = [kind |-> "object", colors |-> None, writes |-> 0]
    /\ installs = <<>>
    /\ stdout = <<>>
    /\ exit_status = None

InitFn ==
    /\ AppIdle
    /\ fp \in FpChoices
    /\ fn_call \in FnCalls
    /\ hsl_ret = None
    /\ theme_ret = None

CallHexToHsl ==
    /\ fn_call.fn = "hex_to_hsl"
    /\ hsl_ret = None
    /\ hsl_ret' = Some(hex_to_hsl(fn_call.hex_color))
    /\ UNCHANGED <<fp, fn_call, theme_ret>>
    /\ UNCHANGED appVars

CallThemeValues ==
    /\ fn_call.fn = "theme_values"
    /\ theme_ret = None
    /\ theme_ret' = Some(theme_values_of(fn_call.hsl))
    /\ UNCHANGED <<fp, fn_call, hsl_ret>>
    /\ UNCHANGED appVars

NextFn == CallHexToHsl \/ CallThemeValues

SpecFn == InitFn /\ [][NextFn]_vars

(***************************************************************************)
(* The application: main() and the picker window.                          *)
(***************************************************************************)
\* the colours _get_pywal_colors returns: color0 .. color15
PaletteSize == 16

ChannelAt(k) == ChannelValues[(k % Min(NChan, Len(ChannelValues))) + 1]

PywalPalette ==
    [i \in 1..PaletteSize |->
        HexName(ChannelAt(i), ChannelAt(i \div 2), ChannelAt(i \div 4), HexUpper)]

\* argparse's result; the panel, opaque and launchpad flags keep their
\* default, False
ArgChoices ==
    {[name |-> None, mode |-> "dark", filled |-> FALSE],
     [name |-> Some(<<"m", "y">>), mode |-> "light", filled |-> TRUE]}

\* str.upper() on the characters of a colour name
UpperChar(c) ==
    IF \E i \in 1..16 : HexLower[i] = c
    THEN HexUpper[CHOOSE i \in 1..16 : HexLower[i] = c]
    ELSE c

upper(s) == [i \in 1..Len(s) |-> UpperChar(s[i])]

\* the three numbers ColorPreviewCard.update_color puts in the HSL label
Labels(hsl) == [h |-> hsl.h, s |-> hsl.s, l |-> hsl.l]

\* ColorPreviewCard's labels as setup_ui leaves them
InitialPreview ==
    [hex |-> <<"#", "0", "0", "0", "0", "0", "0">>, hsl |-> [h |-> 0, s |-> 0, l |-> 0]]

\* a faulty start: the colour of the preview's labels preselected
InitialSelectionBlack == Some(<<"#", "0", "0", "0", "0", "0", "0">>)

\* ModernColorPicker.__init__: self.selected_color = None
InitialSelection == None

Init ==
    /\ pc = "picker"
    /\ fp \in FpChoices
    /\ args \in ArgChoices
    /\ pixmap \in BOOLEAN
    /\ palette \in {<<>>, PywalPalette}
    /\ selected_color = InitialSelection
    /\ apply_enabled = FALSE
    /\ color_preview = InitialPreview
    /\ clicks = 0
    /\ last_click = None
    /\ closed_by = "open"
    /\ theme_values = None
    /\ colors_file = [kind |-> "unread", colors |-> None, writes |-> 0]
    /\ installs = <<>>
    /\ stdout = <<>>
    /\ exit_status = None
    /\ fn_call = NoCall
    /\ hsl_ret = None
    /\ theme_ret = None

\* the variables no step of the picker window touches
afterPicker == <<pc, closed_by, theme_values, colors_file, stdout, exit_status>>

\* a faulty slot: every selection is handed to theme installation at once
handle_color_picked_forwarding(color) ==
    \E hsl \in {hex_to_hsl(color)} :
        /\ selected_color' = Some(color)
        /\ color_preview' = [hex |-> upper(color), hsl |-> Labels(hsl)]
        /\ apply_enabled' = TRUE
        /\ installs' = Append(installs, <<color>>)
        /\ UNCHANGED afterPicker

\* a faulty slot: a second selection does not replace the first
handle_color_picked_keeping_first(color) ==
    \E hsl \in {hex_to_hsl(color)} :
        /\ selected_color' = IF selected_color = None THEN Some(color) ELSE selected_color
        /\ color_preview' = [hex |-> upper(color), hsl |-> Labels(hsl)]
        /\ apply_enabled' = TRUE
        /\ UNCHANGED installs
        /\ UNCHANGED afterPicker

\* ModernColorPicker.handle_color_picked, the slot of both colour signals.
\* An exception of hex_to_hsl leaves the slot after the first assignment.
\* (hsl ranges over the one value of hex_to_hsl(color).)
handle_color_picked(color) ==
    \E hsl \in {hex_to_hsl(color)} :
        /\ selected_color' = Some(color)
        /\ IF hsl.exc = "none"
           THEN /\ color_preview' = [hex |-> upper(color), hsl |-> Labels(hsl)]
                /\ apply_enabled' = TRUE
           ELSE UNCHANGED <<color_preview, apply_enabled>>
        /\ UNCHANGED installs
        /\ UNCHANGED afterPicker

\* ImageViewer.mousePressEvent: a left click on a pixel of the pixmap emits
\* colorPicked(QColor(pixel).name())
PickImage ==
    /\ pc = "picker"
    /\ pixmap
    /\ clicks < MaxClicks
    /\ \E r \in PixelChannels, g \in PixelChannels, b \in PixelChannels :
          \E color \in {HexName(r, g, b, HexLower)} :
             /\ last_click' = Some(color)
             /\ handle_color_picked(color)
    /\ clicks' = clicks + 1
    /\ UNCHANGED <<fp, args, pixmap, palette>>
    /\ UNCHANGED fnVars

\* ColorSwatch.mousePressEvent: a left click emits clicked(self.color)
PickSwatch ==
    /\ pc = "picker"
    /\ clicks < MaxClicks
    /\ \E i \in DOMAIN palette :
          /\ last_click' = Some(palette[i])
          /\ handle_color_picked(palette[i])
    /\ clicks' = clicks + 1
    /\ UNCHANGED <<fp, args, pixmap, palette>>
    /\ UNCHANGED fnVars

\* QMainWindow.close(): the last window closes and app.exec_() returns
close(how) ==
    /\ pc' = "closed"
    /\ closed_by' = how
    /\ UNCHANGED <<fp, args, pixmap, palette, selected_color, apply_enabled,
                   color_preview, clicks, last_click, theme_values, colors_file,
                   installs, stdout, exit_status>>
    /\ UNCHANGED fnVars

\* the Cancel button (or the window's own close button)
Cancel ==
    /\ pc = "picker"
    /\ close("cancel")

\* the Apply Theme button, ModernColorPicker.accept
Accept ==
    /\ pc = "picker"
    /\ apply_enabled
    /\ close("apply")

\* main's except branch: print(f"Error: ..."); exit(1)
Fail(msg) ==
    /\ stdout' = Append(stdout, msg)
    /\ exit_status' = Some(1)
    /\ pc' = "done"

\* "if not selected_color": None and the empty string
Falsy(opt) == opt = None \/ opt = Some(<<>>)

\* main, from picker.get_result() to theme_values
MainAfterExec ==
    /\ pc = "closed"
    /\ IF Falsy(selected_color)
       THEN /\ stdout' = Append(stdout, "No color selected. Exiting...")
            /\ exit_status' = Some(0)
            /\ pc' = "done"
            /\ UNCHANGED theme_values
       ELSE \E hsl \in {hex_to_hsl(selected_color[1])} :
                IF hsl.exc # "none"
                THEN Fail("Error: hex_to_hsl raised") /\ UNCHANGED theme_values
                ELSE /\ theme_values' = Some(theme_values_of(hsl))
                     /\ pc' = "update"
                     /\ UNCHANGED <<stdout, exit_status>>
    /\ UNCHANGED <<fp, args, pixmap, palette, selected_color, apply_enabled,
                   color_preview, clicks, last_click, closed_by, colors_file, installs>>
    /\ UNCHANGED fnVars

(***************************************************************************)
(* ThemeManager.                                                           *)
(***************************************************************************)
\* what update_colors finds at colors_path
FileConditions == {"ok", "missing", "not_json", "read_only", "disk_full"}

\* a faulty update_colors: the exception is swallowed
update_colors_swallowing(found, values) ==
    IF found = "ok"
    THEN [file |-> [kind |-> "object",
                    colors |-> Some([h |-> values.hue, s |-> values.saturation]),
                    writes |-> 1],
          raised |-> FALSE]
    ELSE [file |-> [kind |-> found, colors |-> None, writes |-> 0], raised |-> FALSE]

\* ThemeManager.update_colors: the file afterwards, and whether the call
\* raised "Failed to update theme colors".  colors is the value under
\* "colors" / "extracted"; the other keys of the file are written back as read.
update_colors(found, values) ==
    CASE found = "ok" ->
            [file |-> [kind |-> "object",
                       colors |-> Some([h |-> values.hue, s |-> values.saturation]),
                       writes |-> 1],
             raised |-> FALSE]
      [] found \in {"missing", "not_json"} ->
            \* open(.., "r") or json.load raises: nothing is written
            [file |-> [kind |-> found, colors |-> None, writes |-> 0], raised |-> TRUE]
      [] found = "read_only" ->
            \* open(.., "w") raises before the file is truncated
            [file |-> [kind |-> "object", colors |-> None, writes |-> 0], raised |-> TRUE]
      [] found = "disk_full" ->
            \* open(.., "w") truncated the file and json.dump raises
            [file |-> [kind |-> "truncated", colors |-> None, writes |-> 1], raised |-> TRUE]

\* main's call of update_colors, with main's except branch
UpdateColors ==
    /\ pc = "update"
    /\ \E found \in FileConditions :
          \E done \in {update_colors(found, theme_values[1])} :
              /\ colors_file' = done.file
              /\ IF done.raised
                 THEN Fail("Error: Failed to update theme colors")
                 ELSE /\ pc' = "install"
                      /\ UNCHANGED <<stdout, exit_status>>
    /\ UNCHANGED <<fp, args, pixmap, palette, selected_color, apply_enabled,
                   color_preview, clicks, last_click, closed_by, theme_values, installs>>
    /\ UNCHANGED fnVars

\* str() of an int, as the f-strings of install_cmd format it
RECURSIVE NatStr(_)
NatStr(n) ==
    IF n < 10 THEN <<HexLower[n + 1]>>
    ELSE NatStr(n \div 10) \o <<HexLower[(n % 10) + 1]>>

IntStr(n) == IF n < 0 THEN <<"-">> \o NatStr(0 - n) ELSE NatStr(n)

\* Path(self.wallpaper_path).stem
WallpaperStem == <<"w", "p">>

\* "".join(f"{x:02x}" for x in self.current_color.getRgb()[:3]), where
\* current_color is QColor(selected_color)
color_hex(color) ==
    LET rgb == parse_rgb(lstrip(color))
    IN  HexByte(rgb[1][1], HexLower) \o HexByte(rgb[2][1], HexLower)
        \o HexByte(rgb[3][1], HexLower)

\* ThemeManager.install_theme: the command line given to subprocess.run
install_cmd(values, name, mode, filled, color) ==
    LET theme_name == IF name = None
                      THEN WallpaperStem \o <<"-", "#">> \o color_hex(color)
                      ELSE name[1]
        cmd == <<"python", "install.py",
                 <<"-", "-", "h", "u", "e", "=">> \o IntStr(values.hue),
                 <<"-", "-", "s", "a", "t", "=">> \o IntStr(values.saturation),
                 <<"-", "-", "n", "a", "m", "e", "=">> \o theme_name,
                 <<"--mode=", mode>>>>
    IN  IF filled THEN Append(cmd, "--filled") ELSE cmd

\* main's call of install_theme and what follows it.  subprocess.run with
\* check=True raises when install.py cannot be started or exits non-zero.
InstallTheme ==
    /\ pc = "install"
    /\ installs' = Append(installs,
                          install_cmd(theme_values[1], args.name, args.mode,
                                      args.filled, selected_color[1]))
    /\ \E installed \in BOOLEAN :
          IF installed
          THEN /\ stdout' = Append(stdout, "Theme created successfully!")
               /\ exit_status' = Some(0)
               /\ pc' = "done"
          ELSE Fail("Error: install.py failed")
    /\ UNCHANGED <<fp, args, pixmap, palette, selected_color, apply_enabled,
                   color_preview, clicks, last_click, closed_by, theme_values,
                   colors_file>>
    /\ UNCHANGED fnVars

Next ==
    \/ PickImage
    \/ PickSwatch
    \/ Cancel
    \/ Accept
    \/ MainAfterExec
    \/ UpdateColors
    \/ InstallTheme

Spec == Init /\ [][Next]_vars

(***************************************************************************)
(* The properties.                                                         *)
(***************************************************************************)
Range(q) == {q[i] : i \in DOMAIN q}

\* a colour string without its one optional leading "#"
Body(x) == IF x # <<>> /\ x[1] = "#" THEN Tail(x) ELSE x

\* exactly 6 hexadecimal digits after an optional leading "#"
WellFormedHex(x) ==
    /\ Len(Body(x)) = 6
    /\ \A k \in 1..6 : IsHexDigit(Body(x)[k])

\* the byte written by the two digits at k and k + 1
ByteAt(x, k) == 16 * HexVal(x[k]) + HexVal(x[k + 1])

\* hex_to_hsl was called directly and has returned
Returned == fn_call.fn = "hex_to_hsl" /\ hsl_ret # None

\* the derivation was called directly and has returned
Derived == fn_call.fn = "theme_values" /\ theme_ret # None

\* clamp(s, 30, 100), case by case
Clamped(s) == IF s < 30 THEN 30 ELSE IF s > 100 THEN 100 ELSE s

\* the number written in decimal after the "=" of a command-line flag
RECURSIVE DecVal(_)
DecVal(digits) ==
    IF digits = <<>> THEN 0
    ELSE 10 * DecVal(SubSeq(digits, 1, Len(digits) - 1))
         + ((CHOOSE i \in 1..10 : HexLower[i] = digits[Len(digits)]) - 1)

FlagName(flag) == SubSeq(flag, 1, 6)
FlagValue(flag) == DecVal(SubSeq(flag, 7, Len(flag)))

\* update_colors has run to its end: the file holds the extracted colours
Persisted ==
    /\ colors_file.kind = "object"
    /\ colors_file.writes = 1
    /\ colors_file.colors # None

UpdateFailed == "Error: Failed to update theme colors" \in Range(stdout)

\* C1: every string that is not exactly 6 hex digits after one optional
\* leading "#" makes hex_to_hsl raise instead of returning an HSL value.
C1_MalformedRejected ==
    (Returned /\ ~WellFormedHex(fn_call.hex_color)) => hsl_ret[1].exc # "none"

\* C2: for every valid hex colour, with or without the leading "#",
\* hex_to_hsl returns h in 0..360, s in 0..100 and l in 0..100.
C2_Ranges ==
    (Returned /\ WellFormedHex(fn_call.hex_color)) =>
        /\ hsl_ret[1].exc = "none"
        /\ hsl_ret[1].h \in 0..360
        /\ hsl_ret[1].s \in 0..100
        /\ hsl_ret[1].l \in 0..100

C2_Witness ==
    /\ Returned
    /\ WellFormedHex(fn_call.hex_color)
    /\ fn_call.hex_color[1] # "#"
    /\ hsl_ret[1].h = 360

\* C3: the derived saturation is 30 for every s < 30, s for every
\* 30 <= s <= 100 and 100 for every s > 100, and the derivation always
\* yields a value.
C3_SaturationClamp ==
    Derived =>
        /\ fn_call.hsl.s < 30 => theme_ret[1].saturation = 30
        /\ (30 <= fn_call.hsl.s /\ fn_call.hsl.s <= 100) =>
              theme_ret[1].saturation = fn_call.hsl.s
        /\ fn_call.hsl.s > 100 => theme_ret[1].saturation = 100

C3_Witness ==
    /\ Derived
    /\ fn_call.hsl.s > 100
    /\ theme_ret[1].saturation = 100

\* C4: the hue of main's theme_values is the h hex_to_hsl gave for the
\* selected colour, unchanged; a hue of 360 stays 360.
C4_HuePassThrough ==
    theme_values # None =>
        /\ theme_values[1].hue = color_preview.hsl.h
        /\ theme_values[1].hue = hex_to_hsl(selected_color[1]).h

C4_Witness ==
    /\ theme_values # None
    /\ theme_values[1].hue = 360

\* C5: for every achromatic colour R = G = B = v, hex_to_hsl returns h = 0,
\* s = 0 and l the integer nearest to 100 * v / 255; black gives l = 0 and
\* white l = 100.
C5_Achromatic ==
    (/\ Returned
     /\ WellFormedHex(fn_call.hex_color)
     /\ ByteAt(Body(fn_call.hex_color), 1) = ByteAt(Body(fn_call.hex_color), 3)
     /\ ByteAt(Body(fn_call.hex_color), 1) = ByteAt(Body(fn_call.hex_color), 5)) =>
        LET v == ByteAt(Body(fn_call.hex_color), 1)
            l == hsl_ret[1].l
        IN  /\ hsl_ret[1].exc = "none"
            /\ hsl_ret[1].h = 0
            /\ hsl_ret[1].s = 0
            /\ 2 * (255 * l - 100 * v) <= 255
            /\ 2 * (100 * v - 255 * l) <= 255
            /\ v = 0 => l = 0
            /\ v = 255 => l = 100

C5_Witness ==
    /\ Returned
    /\ fn_call.hex_color = <<"#", "4", "f", "4", "f", "4", "f">>
    /\ hsl_ret[1].l = 31
    /\ hsl_ret[1].s = 0

\* C6: hex_to_hsl maps #FF0000 to {0, 100, 50}, #00FF00 to {120, 100, 50}
\* and #0000FF to {240, 100, 50}.
C6_Primaries ==
    Returned =>
        /\ fn_call.hex_color = <<"#", "F", "F", "0", "0", "0", "0">> =>
              hsl_ret[1] = [exc |-> "none", h |-> 0, s |-> 100, l |-> 50]
        /\ fn_call.hex_color = <<"#", "0", "0", "F", "F", "0", "0">> =>
              hsl_ret[1] = [exc |-> "none", h |-> 120, s |-> 100, l |-> 50]
        /\ fn_call.hex_color = <<"#", "0", "0", "0", "0", "F", "F">> =>
              hsl_ret[1] = [exc |-> "none", h |-> 240, s |-> 100, l |-> 50]

C6_Witness ==
    /\ Returned
    /\ fn_call.hex_color = <<"#", "0", "0", "F", "F", "0", "0">>
    /\ hsl_ret[1].h = 120

C8_CommandMatchesFile ==
    installs # <<>> =>
        /\ colors_file.colors # None
        /\ FlagName(installs[1][3]) = <<"-", "-", "h", "u", "e", "=">>
        /\ FlagName(installs[1][4]) = <<"-", "-", "s", "a", "t", "=">>
        /\ FlagValue(installs[1][3]) = colors_file.colors[1].h
        /\ FlagValue(installs[1][4]) = colors_file.colors[1].s
        /\ colors_file.colors[1].h = hex_to_hsl(last_click[1]).h
        /\ colors_file.colors[1].s = Clamped(hex_to_hsl(last_click[1]).s)

C8_Witness ==
    /\ installs # <<>>
    /\ clicks = 2
    /\ color_preview.hsl.s = 0
    /\ colors_file.colors = Some([h |-> 0, s |-> 30])
    /\ FlagValue(installs[1][4]) = 30

\* C9, as claimed: at the end of a run the file has been modified and the
\* installer invoked if and only if selected_color is set.
C9_IffSelected ==
    pc = "done" =>
        (selected_color # None <=> (colors_file.writes > 0 /\ installs # <<>>))

\* C9, amended: the file is modified and the installer invoked only if
\* selected_color is set, which takes a colour-selection event; with a
\* colour selected, however the window was closed, update_colors is always
\* attempted and the installer is invoked if and only if update_colors
\* completed.
C9_OnlyIfSelected ==
    /\ (colors_file.writes > 0 \/ installs # <<>>) =>
          (clicks > 0 /\ selected_color # None)
    /\ pc = "done" =>
          /\ selected_color # None => colors_file.kind # "unread"
          /\ installs # <<>> <=> (selected_color # None /\ Persisted)

C9_Witness ==
    /\ pc = "done"
    /\ closed_by = "cancel"
    /\ colors_file.writes = 1
    /\ installs # <<>>

\* C10: the installer is started only after update_colors has completed;
\* when update_colors fails the installer is never invoked, the success
\* message is never printed and the program ends with exit status 1.
C10_PersistBeforeInstall ==
    /\ (pc = "install" \/ installs # <<>>) => (Persisted /\ ~UpdateFailed)
    /\ (theme_values # None /\ pc \in {"install", "done"} /\ ~Persisted) => UpdateFailed
    /\ UpdateFailed =>
          /\ installs = <<>>
          /\ "Theme created successfully!" \notin Range(stdout)
          /\ pc = "done"
          /\ exit_status = Some(1)

C10_Witness ==
    /\ UpdateFailed
    /\ colors_file.kind = "truncated"
    /\ exit_status = Some(1)

====
